---------------------------- MODULE Spec2Model ----------------------------
(***************************************************************************)
(* Wave Function Collapse solver (WFCState) with its bucket queue, tile    *)
(* grid, history log and visual-event timeline.                            *)
(*                                                                         *)
(* One behaviour is one solve: Init builds a Map of some size over some    *)
(* TileData, then the consumer calls next() again and again.  A call of    *)
(* next() either pops the timeline, or returns None on an empty queue, or  *)
(* enters collapse(); every iteration of the `loop` of collapse() is one   *)
(* step (CollapseStep), because each iteration makes its own random        *)
(* choices (queue tie-break, tile choice).                                 *)
(***************************************************************************)
EXTENDS Integers, Sequences, FiniteSets, TLC

VARIABLES
    width,      \* Map.width
    height,     \* Map.height
    tile_data,  \* Map.tile_data: [tiles, supports]
    tiles,      \* Map.tiles: Coord -> Tile
    buckets,    \* WFCState.least_entropy.buckets: Vec<HashSet<Coord>>
    timeline,   \* WFCState.timeline
    history,    \* WFCState.history
    pc,         \* "idle": between next() calls; "collapse": inside the loop
                \* of collapse(); "panicked": the thread panicked
    returned,   \* observer: the Some(event) values next() has returned
    appended,   \* observer: every event pushed on the timeline, in order
    lastRet,    \* observer: what the latest finished next() returned
    ended,      \* observer: next() has returned None at least once
    firstEnd,   \* observer: the latest finished next() returned the first None
    lastStep,   \* observer: what the latest iteration of collapse() did
    seen,       \* observer: the notes of all iterations of collapse() so far
    queue,      \* a BucketQueue on its own, driven through its public methods
    qcall,      \* observer: the latest call on queue, its arguments and result,
                \* with queue and qstored as they were before the call
    qstored,    \* observer: coord -> Some(entropy of its latest successful
                \* insert or update_entropy), None once removed or extracted
    ttile,      \* a Tile on its own, driven through its public methods
    tcall       \* observer: the latest call on ttile, its argument and
                \* result, with ttile as it was before the call

vars == <<width, height, tile_data, tiles, buckets, timeline, history, pc,
          returned, appended, lastRet, ended, firstEnd, lastStep, seen,
          queue, qcall, qstored, ttile, tcall>>

----------------------------------------------------------------------------
(* Bounds of the model *)

\* grids of every shape with at most MaxCells cells
MaxCells == 4

\* the generated constraint tables range over NumTiles tile types
NumTiles == 2

\* the BucketQueue driven on its own has QMaxEntropy buckets
QMaxEntropy == 2

\* and is called with the coords (0,0) .. (0,QCells-1)
QCells == 2

\* the tile types of the Tile that is driven on its own are 0..(TNumTiles - 1)
TNumTiles == 3

----------------------------------------------------------------------------
(* grid/coord.rs *)

Coord(r, c) == [row |-> r, col |-> c]

Directions == <<"Top", "Left", "Bottom", "Right">>

\* Option<T>: <<>> is None, <<x>> is Some(x)
None == <<>>
Some(x) == <<x>>
is_some(o) == o # <<>>

\* Coord::neighbours(&self, max_row, max_col): the four optional entries in
\* the order Top, Left, Bottom, Right
neighbours(self, max_row, max_col) ==
    << IF self.row > 0
         THEN Some([direction |-> "Top", coord |-> Coord(self.row - 1, self.col)])
         ELSE None,
       IF self.col > 0
         THEN Some([direction |-> "Left", coord |-> Coord(self.row, self.col - 1)])
         ELSE None,
       IF self.row + 1 < max_row
         THEN Some([direction |-> "Bottom", coord |-> Coord(self.row + 1, self.col)])
         ELSE None,
       IF self.col + 1 < max_col
         THEN Some([direction |-> "Right", coord |-> Coord(self.row, self.col + 1)])
         ELSE None >>

\* neighbours.into_iter().flatten(): the Some entries, in order
RECURSIVE flatten(_)
flatten(opts) ==
    IF opts = <<>> THEN <<>>
    ELSE Head(opts) \o flatten(Tail(opts))

----------------------------------------------------------------------------
(* grid/map.rs, grid/tile.rs *)

\* the coords of a grid of h rows and w columns
GridCoords(h, w) == { Coord(r, c) : r \in 0..(h - 1), c \in 0..(w - 1) }

Coords == GridCoords(height, width)

\* Tile::new
Tile(tile_type, current_domain) ==
    [tile_type |-> tile_type, current_domain |-> current_domain]

\* Map::new: height rows of width tiles, each uncollapsed with the full domain
MapNew(h, w, td) == [c \in GridCoords(h, w) |-> Tile(None, td.tiles)]

get_current_domain_size(tile) == Cardinality(tile.current_domain)

\* Tile::update_constraints: intersect the domain with new_constraints;
\* removed is None when nothing was removed; a domain left with one member
\* sets tile_type
update_constraints(tile, new_constraints) ==
    LET removed == tile.current_domain \ new_constraints
        retained == tile.current_domain \cap new_constraints
    IN  IF removed = {}
          THEN [tile |-> Tile(tile.tile_type, retained), removed |-> None]
          ELSE [tile |-> Tile(IF Cardinality(retained) = 1
                                THEN Some(CHOOSE t \in retained : TRUE)
                                ELSE tile.tile_type,
                              retained),
                removed |-> Some(removed)]

\* Tile::reset_domain
reset_domain(tile, domain) == Tile(tile.tile_type, domain)

\* Tile::remove_contradiction_from_domain
remove_contradiction_from_domain(tile, tile_type) ==
    Tile(tile.tile_type, tile.current_domain \ {tile_type})

\* a collapse_self that reports nothing as removed: the history entry made
\* from it cannot restore the domain
collapse_self_forgetful(tile, collapsed_tile) ==
    [tile |-> Tile(Some(collapsed_tile), {collapsed_tile}),
     tile_type |-> collapsed_tile,
     removed |-> {}]

\* a collapse_self that sets tile_type but leaves the other candidates in
\* current_domain
collapse_self_keep_domain(tile, collapsed_tile) ==
    [tile |-> Tile(Some(collapsed_tile), tile.current_domain),
     tile_type |-> collapsed_tile,
     removed |-> { t \in tile.current_domain : t # collapsed_tile }]

\* Tile::collapse_self with the random choice collapsed_tile; the caller
\* handles the empty domain (no choice exists, the call returns Err)
collapse_self(tile, collapsed_tile) ==
    [tile |-> Tile(Some(collapsed_tile), {collapsed_tile}),
     tile_type |-> collapsed_tile,
     removed |-> { t \in tile.current_domain : t # collapsed_tile }]

----------------------------------------------------------------------------
(* bucket_queue.rs *)

\* BucketQueue::new
BucketQueueNew(max_entropy) == [i \in 1..max_entropy |-> {}]

\* BucketQueue::get_bucket_index; index is the 0-based Rust index; entropy
\* and max are the fields of EntropyOutOfBounds { entropy, max }
get_bucket_index(b, entropy) ==
    IF entropy = 0
      THEN [err |-> "ZeroEntropy", index |-> 0, entropy |-> 0, max |-> 0]
    ELSE IF entropy - 1 >= Len(b)
      THEN [err |-> "EntropyOutOfBounds", index |-> 0,
            entropy |-> entropy, max |-> Len(b)]
    ELSE [err |-> "Ok", index |-> entropy - 1, entropy |-> 0, max |-> 0]

\* BucketQueue::insert
insert(b, coord, entropy) ==
    LET idx == get_bucket_index(b, entropy)
    IN  IF idx.err # "Ok" THEN [err |-> idx.err, buckets |-> b]
        ELSE [err |-> "Ok",
              buckets |-> [b EXCEPT ![idx.index + 1] = @ \cup {coord}]]

\* the buckets that hold coord (1-based positions)
BucketsOf(b, coord) == { i \in 1..Len(b) : coord \in b[i] }

\* buckets.iter_mut().any(|bucket| bucket.remove(&coord)): removes coord
\* from the first bucket that holds it
RemoveFirst(b, coord) ==
    LET i == CHOOSE j \in BucketsOf(b, coord) :
                 \A k \in BucketsOf(b, coord) : j <= k
    IN  [b EXCEPT ![i] = @ \ {coord}]

\* an update_entropy that removes the coord before it validates the new
\* entropy: a rejected call loses the coord
update_entropy_remove_first(b, coord, new_entropy) ==
    LET idx == get_bucket_index(b, new_entropy)
    IN  IF BucketsOf(b, coord) = {}
          THEN [err |-> "EntryNotFound", buckets |-> b]
        ELSE IF idx.err # "Ok"
          THEN [err |-> idx.err, buckets |-> RemoveFirst(b, coord)]
        ELSE [err |-> "Ok",
              buckets |-> [RemoveFirst(b, coord) EXCEPT ![idx.index + 1] = @ \cup {coord}]]

\* an update_entropy that inserts a coord it does not find
update_entropy_upsert(b, coord, new_entropy) ==
    LET idx == get_bucket_index(b, new_entropy)
    IN  IF idx.err # "Ok" THEN [err |-> idx.err, buckets |-> b]
        ELSE IF BucketsOf(b, coord) = {}
          THEN [err |-> "EntryNotFound",
                buckets |-> [b EXCEPT ![idx.index + 1] = @ \cup {coord}]]
        ELSE [err |-> "Ok",
              buckets |-> [RemoveFirst(b, coord) EXCEPT ![idx.index + 1] = @ \cup {coord}]]

\* BucketQueue::update_entropy
update_entropy(b, coord, new_entropy) ==
    LET idx == get_bucket_index(b, new_entropy)
    IN  IF idx.err # "Ok" THEN [err |-> idx.err, buckets |-> b]
        ELSE IF BucketsOf(b, coord) = {}
          THEN [err |-> "EntryNotFound", buckets |-> b]
        ELSE [err |-> "Ok",
              buckets |-> [RemoveFirst(b, coord) EXCEPT ![idx.index + 1] = @ \cup {coord}]]

\* BucketQueue::remove
remove(b, coord) ==
    IF BucketsOf(b, coord) = {}
      THEN [err |-> "EntryNotFound", buckets |-> b]
      ELSE [err |-> "Ok", buckets |-> RemoveFirst(b, coord)]

\* the positions of the non-empty buckets
NonEmpty(b) == { i \in 1..Len(b) : b[i] # {} }

\* the first non-empty bucket (position of buckets.iter().position(..) + 1)
MinBucket(b) == CHOOSE i \in NonEmpty(b) : \A k \in NonEmpty(b) : i <= k

\* a peek_min that looks at the last non-empty bucket
peek_max(b) ==
    IF NonEmpty(b) = {} THEN {}
    ELSE b[CHOOSE i \in NonEmpty(b) : \A k \in NonEmpty(b) : k <= i]

\* BucketQueue::peek_min: the coords it may return (empty set: None)
peek_min(b) == IF NonEmpty(b) = {} THEN {} ELSE b[MinBucket(b)]

\* BucketQueue::extract_min with the coord the HashSet iterator yields first
extract_min(b, coord) ==
    [coord |-> coord, entropy |-> MinBucket(b),
     buckets |-> [b EXCEPT ![MinBucket(b)] = @ \ {coord}]]

----------------------------------------------------------------------------
(* wfc/history.rs *)

SetTile(tile_type, coord) ==
    [event |-> "SetTile", tile_type |-> tile_type, coord |-> coord]

UndoTile(coord) == [event |-> "UndoTile", coord |-> coord]

Collapse(kind, tile_type, coord, removed) ==
    [action |-> "Collapse", kind |-> kind, tile_type |-> tile_type,
     coord |-> coord, removed |-> removed]

DomainReduction(coord, removed, current_entropy) ==
    [action |-> "DomainReduction", coord |-> coord, removed |-> removed,
     current_entropy |-> current_entropy]

----------------------------------------------------------------------------
(* wfc/wfc_state.rs: the solver.  The operators work on a record st of    *)
(* the fields of WFCState; st.appended, st.visited, st.updated, st.popped, *)
(* st.peak and st.notes only observe what the code does.                   *)

\* timeline.push_back
push_event(st, ev) ==
    [st EXCEPT !.timeline = Append(@, ev), !.appended = Append(@, ev)]

\* a history.push that pushes the entry twice
push_action_twice(st, a) ==
    [st EXCEPT !.history = Append(Append(@, a), a),
               !.peak = IF Len(st.history) + 2 > @ THEN Len(st.history) + 2 ELSE @]

\* history.push; st.peak is the largest length the history has had
push_action(st, a) ==
    [st EXCEPT !.history = Append(@, a),
               !.peak = IF Len(st.history) + 1 > @ THEN Len(st.history) + 1 ELSE @]

note(st, n) == [st EXCEPT !.notes = @ \cup {n}]

\* WFCState::set_initial_entropy: every coord inserted at its domain size
RECURSIVE InsertAll(_, _, _)
InsertAll(b, cs, entropy) ==
    IF cs = {} THEN b
    ELSE LET c == CHOOSE x \in cs : TRUE
         IN  InsertAll(insert(b, c, entropy).buckets, cs \ {c}, entropy)

set_initial_entropy(map, td) ==
    InsertAll(BucketQueueNew(Cardinality(td.tiles)), DOMAIN map,
              Cardinality(td.tiles))

\* WFCState::find_last_collapse: Some(0-based index) of the last
\* Collapse{Explicit} entry, or None
find_last_collapse(h) ==
    LET idx == { i \in 1..Len(h) :
                   h[i].action = "Collapse" /\ h[i].kind = "Explicit" }
    IN  IF idx = {} THEN None
        ELSE Some((CHOOSE i \in idx : \A k \in idx : k <= i) - 1)

\* the union of supports(t, direction) over the tile types t of a domain
all_supported_tile_types(td, current_tile_types, direction) ==
    UNION { td.supports[t][direction] : t \in current_tile_types }

\* a changed_cells.push that pushes the coord twice
push_changed_twice(changed_cells, coord) ==
    Append(Append(changed_cells, coord), coord)

\* changed_cells.push(coord) in propagate
push_changed(changed_cells, coord) == Append(changed_cells, coord)

\* a propagate that skips no neighbour
skip_nothing(current_tile) == FALSE

\* `if current_tile.tile_type.is_some() { continue; }` in propagate
skip_collapsed(current_tile) == is_some(current_tile.tile_type)

\* the body of `for (direction, coord) in neighbours` in propagate, for the
\* remaining neighbours nbrs of changed_cell; st.updated holds the
\* neighbours update_constraints was called on, as they were before the call
RECURSIVE PropagateFrom(_, _, _, _, _, _)
PropagateFrom(st, td, w, changed_cells, changed_cell, nbrs) ==
    IF nbrs = <<>>
      THEN [st |-> st, changed_cells |-> changed_cells, res |-> "Ok"]
    ELSE
      LET direction == Head(nbrs).direction
          coord == Head(nbrs).coord
          current_tile_types == st.tiles[changed_cell].current_domain
          st0 == [st EXCEPT !.visited = @ \cup {[from |-> changed_cell, to |-> coord]}]
      IN
      IF \E t \in current_tile_types : t \notin DOMAIN td.supports
        THEN [st |-> st, changed_cells |-> changed_cells, res |-> "Err"]
      ELSE IF coord \notin DOMAIN st.tiles
        \* self.map.tiles[coord.row][coord.col]: index out of bounds
        THEN [st |-> st0, changed_cells |-> changed_cells, res |-> "Panic"]
      ELSE
      LET current_tile == st0.tiles[coord] IN
      IF skip_collapsed(current_tile)
        THEN PropagateFrom(st0, td, w, changed_cells, changed_cell, Tail(nbrs))
      ELSE
      LET entropy_before_update == get_current_domain_size(current_tile)
          upd == update_constraints(current_tile,
                   all_supported_tile_types(td, current_tile_types, direction))
          st1 == [st0 EXCEPT !.tiles[coord] = upd.tile,
                             !.updated = @ \cup {[coord |-> coord,
                                                  tile |-> current_tile]}]
      IN
      IF ~is_some(upd.removed)
        THEN PropagateFrom(st1, td, w, changed_cells, changed_cell, Tail(nbrs))
      ELSE
      LET removed == upd.removed[1]
          entropy_after_update == get_current_domain_size(upd.tile)
          stack == push_changed(changed_cells, coord)
      IN
      IF entropy_after_update = 0
        THEN [st |-> push_action(st1,
                       DomainReduction(coord, removed, entropy_before_update)),
              changed_cells |-> stack, res |-> "Err"]
      ELSE
      LET q == update_entropy(st1.buckets, coord, entropy_after_update) IN
      IF q.err # "Ok"
        THEN [st |-> note(st1, q.err), changed_cells |-> stack, res |-> "Err"]
      ELSE
      LET st2 == push_action([st1 EXCEPT !.buckets = q.buckets],
                     DomainReduction(coord, removed, entropy_after_update))
      IN
      IF entropy_after_update # 1
        THEN PropagateFrom(st2, td, w, stack, changed_cell, Tail(nbrs))
      ELSE
      IF ~is_some(upd.tile.tile_type)
        THEN [st |-> st2, changed_cells |-> stack, res |-> "Err"]
      ELSE
      LET tile_type == upd.tile.tile_type[1]
          q2 == remove(st2.buckets, coord)
      IN
      IF q2.err # "Ok"
        THEN [st |-> note(st2, q2.err), changed_cells |-> stack, res |-> "Err"]
      ELSE
        PropagateFrom(
          push_action(push_event([st2 EXCEPT !.buckets = q2.buckets],
                                 SetTile(tile_type, coord)),
                      Collapse("Implicit", tile_type, coord, removed)),
          td, w, stack, changed_cell, Tail(nbrs))

\* the neighbours propagate asks for: changed_cell.neighbours(width, height)
propagate_neighbours(changed_cell, w, h) ==
    flatten(neighbours(changed_cell, w, h))

\* WFCState::propagate: `while let Some(changed_cell) = changed_cells.pop()`;
\* st.popped lists the cells popped
RECURSIVE propagate(_, _, _, _)
propagate(st, td, wh, changed_cells) ==
    IF changed_cells = <<>> THEN [st |-> st, res |-> "Ok"]
    ELSE
      LET changed_cell == changed_cells[Len(changed_cells)]
          rest == SubSeq(changed_cells, 1, Len(changed_cells) - 1)
          r == PropagateFrom([st EXCEPT !.popped = Append(@, changed_cell)],
                 td, wh, rest, changed_cell,
                 propagate_neighbours(changed_cell, wh[1], wh[2]))
      IN  IF r.res # "Ok" THEN [st |-> r.st, res |-> r.res]
          ELSE propagate(r.st, td, wh, r.changed_cells)

\* an undo_collapse that restores the domain but leaves tile_type set
undo_collapse_keep_type(st, coord, removed) ==
    LET tile == Tile(st.tiles[coord].tile_type,
                     st.tiles[coord].current_domain \cup removed)
        st1 == [st EXCEPT !.tiles[coord] = tile]
        q == insert(st1.buckets, coord, get_current_domain_size(tile))
    IN  IF q.err # "Ok" THEN [st |-> note(st1, q.err), res |-> "Err"]
        ELSE [st |-> push_event([st1 EXCEPT !.buckets = q.buckets], UndoTile(coord)),
              res |-> "Ok"]

\* WFCState::undo_collapse
undo_collapse(st, coord, removed) ==
    LET tile == Tile(None, st.tiles[coord].current_domain \cup removed)
        st1 == [st EXCEPT !.tiles[coord] = tile]
        q == insert(st1.buckets, coord, get_current_domain_size(tile))
    IN  IF q.err # "Ok" THEN [st |-> note(st1, q.err), res |-> "Err"]
        ELSE [st |-> push_event([st1 EXCEPT !.buckets = q.buckets], UndoTile(coord)),
              res |-> "Ok"]

\* an undo_domain_reduction that also emits UndoTile for the coord, as
\* undo_collapse does: a cell that was never displayed would be cleared
undo_domain_reduction_with_event(st, coord, removed) ==
    LET tile == Tile(st.tiles[coord].tile_type,
                     st.tiles[coord].current_domain \cup removed)
        st1 == [st EXCEPT !.tiles[coord] = tile]
        q == update_entropy(st1.buckets, coord, get_current_domain_size(tile))
    IN  IF q.err # "Ok"
          THEN [st |-> note(note(st1, q.err), "UndoReductionFailed"), res |-> "Err"]
        ELSE [st |-> push_event([st1 EXCEPT !.buckets = q.buckets], UndoTile(coord)),
              res |-> "Ok"]

\* an undo_domain_reduction that restores the domain but leaves the coord
\* in the bucket of the reduced domain
undo_domain_reduction_no_requeue(st, coord, removed) ==
    LET tile == Tile(st.tiles[coord].tile_type,
                     st.tiles[coord].current_domain \cup removed)
    IN  [st |-> [st EXCEPT !.tiles[coord] = tile], res |-> "Ok"]

\* WFCState::undo_domain_reduction; the note "UndoReductionFailed" observes
\* that its update_entropy call returned an error
undo_domain_reduction(st, coord, removed) ==
    LET tile == Tile(st.tiles[coord].tile_type,
                     st.tiles[coord].current_domain \cup removed)
        st1 == [st EXCEPT !.tiles[coord] = tile]
        q == update_entropy(st1.buckets, coord, get_current_domain_size(tile))
    IN  IF q.err # "Ok"
          THEN [st |-> note(note(st1, q.err), "UndoReductionFailed"), res |-> "Err"]
        ELSE [st |-> [st1 EXCEPT !.buckets = q.buckets], res |-> "Ok"]

\* history.pop() applied to a non-empty history
Last(h) == h[Len(h)]
Front(h) == SubSeq(h, 1, Len(h) - 1)

\* the `while self.history.len() > to` loop of backtrack
RECURSIVE backtrack_undo(_, _)
backtrack_undo(st, to) ==
    IF Len(st.history) <= to THEN [st |-> st, res |-> "Ok"]
    ELSE
      LET a == Last(st.history)
          st1 == [st EXCEPT !.history = Front(@)]
          r == IF a.action = "Collapse"
                 THEN undo_collapse(st1, a.coord, a.removed)
                 ELSE undo_domain_reduction(st1, a.coord, a.removed)
      IN  IF r.res # "Ok" THEN r ELSE backtrack_undo(r.st, to)

\* the boundary part of backtrack: pop the target entry, restore its cell
\* and remove the failed tile type
backtrack_target(st) ==
    IF st.history = <<>> THEN [st |-> note(st, "NoBoundary"), res |-> "Ok"]
    ELSE
      LET a == Last(st.history)
          st1 == [st EXCEPT !.history = Front(@)]
      IN
      IF a.action # "Collapse"
        THEN [st |-> note(st1, "DroppedReduction"), res |-> "Ok"]
      ELSE
      LET tile == remove_contradiction_from_domain(
                    Tile(None, st1.tiles[a.coord].current_domain \cup a.removed),
                    a.tile_type)
          st2 == note([st1 EXCEPT !.tiles[a.coord] = tile],
                      IF a.kind = "Explicit" THEN "ForbidExplicit" ELSE "ForbidImplicit")
      IN
      IF get_current_domain_size(tile) = 0
        THEN [st |-> note(st2, "ExhaustedPaths"), res |-> "ExhaustedPaths"]
      ELSE
      LET q == insert(st2.buckets, a.coord, get_current_domain_size(tile)) IN
      IF q.err # "Ok" THEN [st |-> note(st2, q.err), res |-> "Err"]
      ELSE [st |-> push_event([st2 EXCEPT !.buckets = q.buckets], UndoTile(a.coord)),
            res |-> "Ok"]

\* WFCState::backtrack; the note observes a call whose target length is not
\* (index of the last Collapse{Explicit}) + 1
backtrack(st, to) ==
    LET last == find_last_collapse(st.history)
        st0 == IF is_some(last) /\ to = last[1] + 1 THEN st
               ELSE note(st, "TargetNotAfterExplicit")
        r == backtrack_undo(st0, to)
    IN  IF r.res # "Ok" THEN r ELSE backtrack_target(r.st)

\* the target of a re-targeted backtrack after ExhaustedPaths
retarget(idx) == idx

\* the inner `loop` of collapse: backtrack, re-targeting on ExhaustedPaths.
\* "Continue": backtrack returned Ok and collapse loops again; "Err":
\* collapse returns the error
RECURSIVE backtrack_loop(_, _)
backtrack_loop(st, to) ==
    LET r == backtrack(st, to) IN
    IF r.res = "Ok" THEN [st |-> r.st, res |-> "Continue"]
    ELSE IF r.res = "ExhaustedPaths"
      THEN LET last == find_last_collapse(r.st.history) IN
           IF ~is_some(last) THEN [st |-> note(r.st, "GiveUp"), res |-> "Err"]
           ELSE backtrack_loop(note(r.st, "Retarget"), retarget(last[1]))
    ELSE [st |-> note(r.st, "Fatal"), res |-> "Err"]

\* one iteration of the `loop` of collapse, after find_least_entropy has
\* returned chosen_cell and collapse_self has picked chosen_tile_type
collapse_iteration(st, td, wh, chosen_cell, chosen_tile_type) ==
    LET c == collapse_self(st.tiles[chosen_cell], chosen_tile_type)
        st1 == push_action(
                 push_event([st EXCEPT !.tiles[chosen_cell] = c.tile],
                            SetTile(chosen_tile_type, chosen_cell)),
                 Collapse("Explicit", chosen_tile_type, chosen_cell, c.removed))
        p == propagate(st1, td, wh, <<chosen_cell>>)
    IN  IF p.res = "Ok" THEN [st |-> p.st, res |-> "Ok"]
        ELSE IF p.res = "Panic" THEN [st |-> p.st, res |-> "Panic"]
        ELSE LET last == find_last_collapse(p.st.history) IN
             IF ~is_some(last) THEN [st |-> note(p.st, "Fatal"), res |-> "Err"]
             ELSE backtrack_loop(note(p.st, "Backtrack"), last[1] + 1)

----------------------------------------------------------------------------
(* The inputs: grid sizes and TileData values *)

\* (height, width) of the grids
GridSizes ==
    { sz \in (1..MaxCells) \X (1..MaxCells) : sz[1] * sz[2] <= MaxCells }

\* TileData{tiles, supports}: supports[t][d] is the set of tile types allowed
\* at the neighbour in direction d of a cell of type t
TileData(ts, right, left, bottom, top) ==
    [tiles |-> ts,
     supports |-> [t \in ts |->
        [d \in {"Top", "Left", "Bottom", "Right"} |->
            CASE d = "Right" -> right[t]
              [] d = "Left" -> left[t]
              [] d = "Bottom" -> bottom[t]
              [] d = "Top" -> top[t]]]]

\* the tile types 0 .. NumTiles-1 of the generated tables
GenTiles == 0..(NumTiles - 1)

\* a rule of the generated tables: the supports of tile t in one direction
Rule(name, t) ==
    CASE name = "full" -> GenTiles
      [] name = "none" -> {}
      [] name = "same" -> {t}
      [] name = "other" -> GenTiles \ {t}
      [] name = "first" -> {0}
      [] name = "only0" -> IF t = 0 THEN GenTiles ELSE {}

\* the rules of one axis: <<forward direction, backward direction>>.  The
\* first four are consistent (u allowed after t iff t allowed before u), the
\* last two are one-sided like the table of scenario S2.
AxisRules ==
    { <<"full", "full">>, <<"same", "same">>, <<"other", "other">>,
      <<"first", "only0">>, <<"none", "full">>, <<"other", "full">> }

GenTables ==
    { TileData(GenTiles,
               [t \in GenTiles |-> Rule(hz[1], t)], [t \in GenTiles |-> Rule(hz[2], t)],
               [t \in GenTiles |-> Rule(vt[1], t)], [t \in GenTiles |-> Rule(vt[2], t)])
        : hz \in AxisRules, vt \in AxisRules }

\* a function on the tile types 0, 1, 2
Row3(a, b, c) == [t \in {0, 1, 2} |-> IF t = 0 THEN a ELSE IF t = 1 THEN b ELSE c]

\* scenario S1: a single tile type that supports itself in all directions
S1Table ==
    TileData({0}, [t \in {0} |-> {0}], [t \in {0} |-> {0}],
                  [t \in {0} |-> {0}], [t \in {0} |-> {0}])

\* a satisfiable table of three tile types (every cell 0 is a solution) on
\* which a wrong first choice is found out only two collapses later
TrapTable ==
    TileData({0, 1, 2},
             Row3({0}, {}, {0}),             \* right
             Row3({0, 2}, {1}, {0, 2}),      \* left
             Row3({0, 1}, {0, 2}, {1, 2}),   \* bottom
             Row3({0, 2}, {2}, {0, 2}))      \* top

\* scenario S3: tile types A = 0 and B = 1, supports(A, Bottom) = {B},
\* supports(B, Top) = {A}, every other support set empty
S3Table ==
    TileData({0, 1}, [t \in {0, 1} |-> {}], [t \in {0, 1} |-> {}],
                     [t \in {0, 1} |-> IF t = 0 THEN {1} ELSE {}],
                     [t \in {0, 1} |-> IF t = 1 THEN {0} ELSE {}])

ScenarioTables == { S1Table, S3Table, TrapTable }

Tables == GenTables \cup ScenarioTables

----------------------------------------------------------------------------
(* The state machine *)

NoStep ==
    [chosen_cell |-> Coord(0, 0), chosen_tile_type |-> 0, res |-> "None",
     notes |-> {}, visited |-> {}, updated |-> {}, popped |-> <<>>,
     peak |-> 0]

\* the coords and entropies the calls on queue are made with; entropy 0 and
\* QMaxEntropy + 1 are the invalid ones
QCoords == { Coord(0, c) : c \in 0..(QCells - 1) }
QEntropies == 0..(QMaxEntropy + 1)

NoCall ==
    [name |-> "new", coord |-> Coord(0, 0), entropy |-> 0, err |-> "Ok",
     result |-> None, before |-> BucketQueueNew(QMaxEntropy),
     stored |-> [c \in QCoords |-> None]]

\* BucketQueue::new(QMaxEntropy)
QueueNew ==
    /\ queue = BucketQueueNew(QMaxEntropy)
    /\ qcall = NoCall
    /\ qstored = [c \in QCoords |-> None]

\* WFCState::new on Map::new(width, height) with sz = (height, width)
SolverNew(sz, td) ==
    /\ height = sz[1]
    /\ width = sz[2]
    /\ tile_data = td
    /\ tiles = MapNew(sz[1], sz[2], td)
    /\ buckets = set_initial_entropy(MapNew(sz[1], sz[2], td), td)
    /\ timeline = <<>>
    /\ history = <<>>
    /\ pc = "idle"
    /\ returned = <<>>
    /\ appended = <<>>
    /\ lastRet = "Start"
    /\ ended = FALSE
    /\ firstEnd = FALSE
    /\ lastStep = NoStep
    /\ seen = {}

\* the tile that is driven on its own, before any call
NoTileCall ==
    [name |-> "new", arg |-> None, err |-> "Ok", result |-> None,
     before |-> Tile(None, {})]

\* Tile::new(tile_type, current_domain)
TileNew(tile_type, current_domain) ==
    /\ ttile = Tile(tile_type, current_domain)
    /\ tcall = [NoTileCall EXCEPT !.before = Tile(tile_type, current_domain)]

Init ==
    /\ \E sz \in GridSizes, td \in Tables : SolverNew(sz, td)
    /\ QueueNew
    /\ TileNew(None, {})

\* next(): timeline.pop_front() is Some
NextPop ==
    /\ pc = "idle"
    /\ timeline # <<>>
    /\ timeline' = Tail(timeline)
    /\ returned' = Append(returned, Head(timeline))
    /\ lastRet' = "Some"
    /\ firstEnd' = FALSE
    /\ UNCHANGED <<width, height, tile_data, tiles, buckets, history, pc,
                   appended, ended, lastStep, seen, queue, qcall, qstored, ttile, tcall>>

\* next(): the timeline is empty and peek_min()? returns None
NextNone ==
    /\ pc = "idle"
    /\ timeline = <<>>
    /\ peek_min(buckets) = {}
    /\ lastRet' = "None"
    /\ ended' = TRUE
    /\ firstEnd' = ~ended
    /\ UNCHANGED <<width, height, tile_data, tiles, buckets, timeline, history,
                   pc, returned, appended, lastStep, seen, queue, qcall, qstored, ttile, tcall>>

\* next(): the timeline is empty, the queue is not: collapse() is called
NextCollapse ==
    /\ pc = "idle"
    /\ timeline = <<>>
    /\ peek_min(buckets) # {}
    /\ pc' = "collapse"
    /\ UNCHANGED <<width, height, tile_data, tiles, buckets, timeline, history,
                   returned, appended, lastRet, ended, firstEnd, lastStep, seen,
                   queue, qcall, qstored, ttile, tcall>>

\* the end of one iteration of the loop of collapse() with outcome r:
\* "Ok": collapse returns Ok and next() returns Some(SetTile{chosen});
\* "Err": collapse returns Err and next() returns None;
\* "Continue": the loop runs again; "Panic": the thread panicked
Finish(r, chosen_cell, chosen_tile_type) ==
    /\ tiles' = r.st.tiles
    /\ buckets' = r.st.buckets
    /\ timeline' = r.st.timeline
    /\ history' = r.st.history
    /\ appended' = r.st.appended
    /\ lastStep' = [chosen_cell |-> chosen_cell,
                    chosen_tile_type |-> chosen_tile_type, res |-> r.res,
                    notes |-> r.st.notes, visited |-> r.st.visited,
                    updated |-> r.st.updated, popped |-> r.st.popped,
                    peak |-> r.st.peak]
    /\ seen' = seen \cup r.st.notes
    /\ pc' = CASE r.res = "Continue" -> "collapse"
               [] r.res = "Panic" -> "panicked"
               [] OTHER -> "idle"
    /\ returned' = IF r.res = "Ok"
                     THEN Append(returned, SetTile(chosen_tile_type, chosen_cell))
                     ELSE returned
    /\ lastRet' = CASE r.res = "Ok" -> "Some"
                    [] r.res = "Err" -> "None"
                    [] OTHER -> lastRet
    /\ ended' = (ended \/ r.res = "Err")
    /\ firstEnd' = CASE r.res = "Ok" -> FALSE
                     [] r.res = "Err" -> ~ended
                     [] OTHER -> firstEnd
    /\ UNCHANGED <<width, height, tile_data, queue, qcall, qstored, ttile, tcall>>

\* one iteration of the loop of collapse(): find_least_entropy, collapse_self,
\* propagate and, when propagate fails, the backtrack loop
CollapseStep ==
    /\ pc = "collapse"
    /\ LET st == [tiles |-> tiles, buckets |-> buckets, timeline |-> timeline,
                  history |-> history, appended |-> appended,
                  visited |-> {}, updated |-> {}, popped |-> <<>>,
                  peak |-> Len(history), notes |-> {}]
       IN
       IF peek_min(buckets) = {}
         THEN Finish([st |-> note(st, "NoCells"), res |-> "Err"], Coord(0, 0), 0)
         ELSE \E chosen_cell \in peek_min(buckets) :
            LET st0 == [st EXCEPT !.buckets = extract_min(buckets, chosen_cell).buckets]
            IN  IF tiles[chosen_cell].current_domain = {}
                  THEN Finish([st |-> note(st0, "EmptyCollapse"), res |-> "Err"],
                              chosen_cell, 0)
                  ELSE \E chosen_tile_type \in tiles[chosen_cell].current_domain :
                         Finish(collapse_iteration(st0, tile_data, <<width, height>>,
                                                   chosen_cell, chosen_tile_type),
                                chosen_cell, chosen_tile_type)

\* WFCState::next
next == NextPop \/ NextNone \/ NextCollapse

Next == next \/ CollapseStep

Spec == Init /\ [][Next]_vars

----------------------------------------------------------------------------
(* The BucketQueue on its own: any sequence of calls of its public methods *)

solver_vars ==
    <<width, height, tile_data, tiles, buckets, timeline, history, pc,
      returned, appended, lastRet, ended, firstEnd, lastStep, seen>>

Call(name, coord, entropy, err, result) ==
    [name |-> name, coord |-> coord, entropy |-> entropy, err |-> err,
     result |-> result, before |-> queue, stored |-> qstored]

\* a solver is constructed but never called
QInit == SolverNew(<<1, 1>>, S1Table) /\ QueueNew /\ TileNew(None, {})

\* queue.insert(coord, entropy)
QInsert ==
    \E coord \in QCoords, entropy \in QEntropies :
        LET r == insert(queue, coord, entropy) IN
        /\ queue' = r.buckets
        /\ qcall' = Call("insert", coord, entropy, r.err, None)
        /\ qstored' = IF r.err = "Ok" THEN [qstored EXCEPT ![coord] = Some(entropy)]
                       ELSE qstored
        /\ UNCHANGED <<solver_vars, ttile, tcall>>

\* queue.update_entropy(coord, new_entropy)
QUpdateEntropy ==
    \E coord \in QCoords, new_entropy \in QEntropies :
        LET r == update_entropy(queue, coord, new_entropy) IN
        /\ queue' = r.buckets
        /\ qcall' = Call("update_entropy", coord, new_entropy, r.err, None)
        /\ qstored' = IF r.err = "Ok"
                         THEN [qstored EXCEPT ![coord] = Some(new_entropy)]
                         ELSE qstored
        /\ UNCHANGED <<solver_vars, ttile, tcall>>

\* queue.remove(coord)
QRemove ==
    \E coord \in QCoords :
        LET r == remove(queue, coord) IN
        /\ queue' = r.buckets
        /\ qcall' = Call("remove", coord, 0, r.err, None)
        /\ qstored' = IF r.err = "Ok" THEN [qstored EXCEPT ![coord] = None]
                       ELSE qstored
        /\ UNCHANGED <<solver_vars, ttile, tcall>>

\* queue.extract_min(): None on the empty queue, else Some((coord, entropy))
\* for the coord the HashSet iterator of the first non-empty bucket yields
QExtractMin ==
    /\ IF peek_min(queue) = {}
         THEN /\ qcall' = Call("extract_min", Coord(0, 0), 0, "Ok", None)
              /\ UNCHANGED <<queue, qstored>>
         ELSE \E coord \in peek_min(queue) :
                LET r == extract_min(queue, coord) IN
                /\ queue' = r.buckets
                /\ qcall' = Call("extract_min", r.coord, r.entropy, "Ok",
                                 Some(<<r.coord, r.entropy>>))
                /\ qstored' = [qstored EXCEPT ![coord] = None]
    /\ UNCHANGED <<solver_vars, ttile, tcall>>

\* queue.peek_min(): None on the empty queue, else Some(coord)
QPeekMin ==
    /\ IF peek_min(queue) = {}
         THEN qcall' = Call("peek_min", Coord(0, 0), 0, "Ok", None)
         ELSE \E coord \in peek_min(queue) :
                qcall' = Call("peek_min", coord, 0, "Ok", Some(coord))
    /\ UNCHANGED <<queue, qstored>>
    /\ UNCHANGED <<solver_vars, ttile, tcall>>

QNext == QInsert \/ QUpdateEntropy \/ QRemove \/ QExtractMin \/ QPeekMin

QueueSpec == QInit /\ [][QNext]_vars

----------------------------------------------------------------------------
(* A Tile on its own: any sequence of calls of its public methods *)

TTileTypes == 0..(TNumTiles - 1)

TCall(name, arg, err, result) ==
    [name |-> name, arg |-> arg, err |-> err, result |-> result,
     before |-> ttile]

\* a solver and a queue are constructed but never called; the tile is
\* Tile::new(tile_type, current_domain) for any arguments
TInit ==
    /\ SolverNew(<<1, 1>>, S1Table)
    /\ QueueNew
    /\ \E tile_type \in {None} \cup { Some(t) : t \in TTileTypes },
          current_domain \in SUBSET TTileTypes :
          TileNew(tile_type, current_domain)

\* tile.collapse_self(): Err when `choose` finds no member of the domain,
\* else Ok((collapsed_tile, removed)) for the member `choose` picks
TCollapseSelf ==
    /\ IF ttile.current_domain = {}
         THEN /\ tcall' = TCall("collapse_self", None, "EmptyDomain", None)
              /\ UNCHANGED ttile
         ELSE \E collapsed_tile \in ttile.current_domain :
                LET r == collapse_self(ttile, collapsed_tile) IN
                /\ ttile' = r.tile
                /\ tcall' = TCall("collapse_self", None, "Ok",
                                  Some(<<r.tile_type, r.removed>>))
    /\ UNCHANGED <<solver_vars, queue, qcall, qstored>>

\* tile.update_constraints(new_constraints)
TUpdateConstraints ==
    \E new_constraints \in SUBSET TTileTypes :
        LET r == update_constraints(ttile, new_constraints) IN
        /\ ttile' = r.tile
        /\ tcall' = TCall("update_constraints", Some(new_constraints), "Ok",
                          r.removed)
        /\ UNCHANGED <<solver_vars, queue, qcall, qstored>>

\* tile.remove_contradiction_from_domain(tile_type)
TRemoveContradiction ==
    \E tile_type \in TTileTypes :
        /\ ttile' = remove_contradiction_from_domain(ttile, tile_type)
        /\ tcall' = TCall("remove_contradiction_from_domain", Some(tile_type),
                          "Ok", None)
        /\ UNCHANGED <<solver_vars, queue, qcall, qstored>>

\* tile.reset_domain(domain)
TResetDomain ==
    \E domain \in SUBSET TTileTypes :
        /\ ttile' = reset_domain(ttile, domain)
        /\ tcall' = TCall("reset_domain", Some(domain), "Ok", None)
        /\ UNCHANGED <<solver_vars, queue, qcall, qstored>>

TNext == TCollapseSelf \/ TUpdateConstraints \/ TRemoveContradiction
           \/ TResetDomain

TileSpec == TInit /\ [][TNext]_vars

----------------------------------------------------------------------------
(* Vocabulary of the properties *)

Collapsed(c) == is_some(tiles[c].tile_type)

QueueEmpty == peek_min(buckets) = {}

\* the coord lying in direction d from c
Step(c, d) ==
    CASE d = "Top" -> Coord(c.row - 1, c.col)
      [] d = "Left" -> Coord(c.row, c.col - 1)
      [] d = "Bottom" -> Coord(c.row + 1, c.col)
      [] d = "Right" -> Coord(c.row, c.col + 1)

DirSet == {"Top", "Left", "Bottom", "Right"}

\* some assignment of one tile type per cell satisfies every adjacency
\* constraint of the table
Satisfiable ==
    \E f \in [Coords -> tile_data.tiles] :
        \A c \in Coords, d \in DirSet :
            Step(c, d) \in Coords => f[Step(c, d)] \in tile_data.supports[f[c]][d]

\* the display after replaying the returned events: None or Some(tile)
Shown(c) ==
    LET idx == { i \in 1..Len(returned) : returned[i].coord = c }
    IN  IF idx = {} THEN None
        ELSE LET m == CHOOSE i \in idx : \A k \in idx : k <= i
             IN  IF returned[m].event = "SetTile"
                   THEN Some(returned[m].tile_type) ELSE None

\* the solve has just ended: the latest next() returned the first None
JustEnded == pc = "idle" /\ firstEnd

----------------------------------------------------------------------------
(* C1 *)

\* C1: whenever next() returns None (the first None of the solve) with an
\* empty timeline and an empty entropy queue, every cell has
\* tile_type = Some(t) and current_domain = {t}.
C1_SolvedAllCollapsed ==
    (JustEnded /\ timeline = <<>> /\ QueueEmpty)
        => \A c \in Coords :
              /\ Collapsed(c)
              /\ tiles[c].current_domain = {tiles[c].tile_type[1]}

(* C2 *)

\* C2: when the iterator ends with the queue empty, every ordered pair of
\* adjacent collapsed cells c1 = u, c2 = v with c2 in direction d from c1 has
\* v in supports(u, d).
C2_AdjacencySound ==
    (JustEnded /\ QueueEmpty)
        => \A c1 \in Coords, d \in DirSet :
              (Step(c1, d) \in Coords /\ Collapsed(c1) /\ Collapsed(Step(c1, d)))
                => tiles[Step(c1, d)].tile_type[1]
                     \in tile_data.supports[tiles[c1].tile_type[1]][d]

(* C3 *)

\* C3: between next() calls the events returned so far, followed by the
\* events still in the timeline, are exactly the events appended to the
\* timeline, in append order, each once; and on the 1x1 grid with the single
\* tile type of S1 the events returned before the end are exactly one
\* SetTile{(0,0), A}.
C3_ReturnedAreAppended ==
    pc = "idle" =>
        /\ returned \o timeline = appended
        /\ (ended /\ width = 1 /\ height = 1 /\ tile_data = S1Table)
              => returned = << SetTile(0, Coord(0, 0)) >>

(* C4 *)

\* C4: once next() has returned None, no later call returns an event, and
\* None is never returned while events are pending in the timeline.
C4_EndIsFinal ==
    [][ /\ ended => returned' = returned
        /\ (lastRet' = "None" /\ pc' = "idle") => timeline' = <<>> ]_vars

(* C5 *)

\* the thread has panicked: no call to next() returns any more.  Every other
\* state has a step of Next (idle: one of the three branches of next();
\* collapse: an iteration of the loop of collapse())
Panicked == pc = "panicked"

\* C5: repeatedly calling next() eventually returns None: no run stops
\* before a call has returned None.
C5_EndsOrContinues == ended \/ ~Panicked

(* C6 *)

\* C6: if the iterator ends while some cell is still uncollapsed, then no
\* assignment of one tile type per cell satisfies all adjacency constraints.
C6_GiveUpImpliesUnsat ==
    (JustEnded /\ \E c \in Coords : ~Collapsed(c)) => ~Satisfiable

(* C7 *)

\* C7: when the iterator ends, replaying the returned events in order shows
\* exactly the final grid: Shown(c) = tile_type(c) for every cell c.
C7_ReplayIsFinalGrid ==
    JustEnded => \A c \in Coords : Shown(c) = tiles[c].tile_type

(* C8 *)

\* the events before position i leave coord c displayed
ShownBefore(i, c) ==
    \E j \in 1..(i - 1) :
        /\ returned[j].event = "SetTile"
        /\ returned[j].coord = c
        /\ \A k \in (j + 1)..(i - 1) :
              ~(returned[k].event = "UndoTile" /\ returned[k].coord = c)

\* C8: in the sequence of events returned by next(), every UndoTile{c} is
\* preceded by a SetTile{c, _} that has not yet been undone.
C8_StreamWellFormed ==
    \A i \in 1..Len(returned) :
        returned[i].event = "UndoTile" => ShownBefore(i, returned[i].coord)

\* witness of C8: the solver has given up and an UndoTile has been returned
C8_Witness ==
    /\ "GiveUp" \in seen
    /\ \E i \in 1..Len(returned) : returned[i].event = "UndoTile"

(* C9 *)

\* the grid and queue after applying the inverse of every history entry in
\* reverse order to the current state
InverseAll ==
    backtrack_undo([tiles |-> tiles, buckets |-> buckets, timeline |-> timeline,
                    history |-> history, appended |-> appended,
                    visited |-> {}, updated |-> {}, popped |-> <<>>,
                    peak |-> Len(history), notes |-> {}], 0)

IsInitialGrid(r) ==
    /\ r.res = "Ok"
    /\ r.st.tiles = MapNew(height, width, tile_data)
    /\ r.st.buckets = set_initial_entropy(MapNew(height, width, tile_data), tile_data)

\* C9 (as claimed): at any point between next() calls, undoing every history
\* entry in reverse order yields the initial grid and the initial queue.
C9_HistoryReversible == pc = "idle" => IsInitialGrid(InverseAll)

\* C9 (amended): the same, as long as no backtrack has happened in the solve.
C9_ReversibleBeforeBacktrack ==
    (pc = "idle" /\ "Backtrack" \notin seen) => IsInitialGrid(InverseAll)

\* witness of C9: a forward-only solve whose history holds an explicit
\* collapse, a domain reduction and an implicit collapse
C9_Witness ==
    /\ pc = "idle"
    /\ "Backtrack" \notin seen
    /\ \E i, j, k \in 1..Len(history) :
          /\ history[i].action = "Collapse" /\ history[i].kind = "Explicit"
          /\ history[i].removed # {}
          /\ history[j].action = "DomainReduction"
          /\ history[k].action = "Collapse" /\ history[k].kind = "Implicit"

(* C10 *)

\* the coords among the four neighbours of c that lie in the grid
ClippedNeighbours(c) == { Step(c, d) : d \in DirSet } \cap Coords

\* C10: propagation from a cell visits exactly its in-grid neighbours and
\* never accesses a coord outside the grid.
C10_NeighboursClipped ==
    /\ pc # "panicked"
    /\ \A v \in lastStep.visited : v.to \in Coords
    /\ lastStep.res = "Ok" =>
          \A v \in lastStep.visited :
              { x.to : x \in { y \in lastStep.visited : y.from = v.from } }
                  = ClippedNeighbours(v.from)

(* C11 *)

\* the grid of scenario S3: 2 rows, 1 column, over S3Table
IsS3 == height = 2 /\ width = 1 /\ tile_data = S3Table

\* C11: on the grid of scenario S3 the solve always terminates (no call of
\* next() panics) and ends with (0,0) collapsed to A and (1,0) collapsed
\* to B.
C11_S3FinalGrid ==
    IsS3 =>
        /\ ~Panicked
        /\ JustEnded =>
              /\ tiles[Coord(0, 0)] = Tile(Some(0), {0})
              /\ tiles[Coord(1, 0)] = Tile(Some(1), {1})

(* C12 *)

\* coord is stored in queue b
Stored(b, coord) == BucketsOf(b, coord) # {}

\* C12: an insert of a coord that is already present fails, and a coord is
\* stored in at most one bucket.
C12_InsertRejectsPresent ==
    /\ (qcall.name = "insert" /\ Stored(qcall.before, qcall.coord))
          => qcall.err # "Ok"
    /\ \A coord \in QCoords : Cardinality(BucketsOf(queue, coord)) <= 1

(* C13 *)

\* C13: insert and update_entropy called with entropy 0 return ZeroEntropy,
\* called with entropy > max_entropy they return
\* EntropyOutOfBounds{entropy, max}; in both cases the queue is unchanged.
C13_InvalidEntropyRejected ==
    qcall.name \in {"insert", "update_entropy"} =>
        /\ qcall.entropy = 0 =>
              qcall.err = "ZeroEntropy" /\ queue = qcall.before
        /\ qcall.entropy > Len(qcall.before) =>
              /\ qcall.err = "EntropyOutOfBounds"
              /\ get_bucket_index(qcall.before, qcall.entropy).entropy = qcall.entropy
              /\ get_bucket_index(qcall.before, qcall.entropy).max = Len(qcall.before)
              /\ queue = qcall.before

\* witness of C13: update_entropy of a stored coord with entropy 0 has been
\* rejected
C13_Witness ==
    /\ qcall.name = "update_entropy"
    /\ qcall.entropy = 0
    /\ qcall.err = "ZeroEntropy"
    /\ Stored(qcall.before, qcall.coord)

(* C14 *)

\* C14 (as claimed): update_entropy(coord, e) and remove(coord) of a coord
\* that is not stored return EntryNotFound and leave the queue unchanged.
C14_AbsentRejected ==
    (qcall.name \in {"update_entropy", "remove"}
       /\ ~Stored(qcall.before, qcall.coord))
        => qcall.err = "EntryNotFound" /\ queue = qcall.before

\* C14 (amended): the same for remove, and for update_entropy called with a
\* valid entropy 1 <= e <= max_entropy; with an invalid entropy
\* update_entropy returns the entropy error, the queue unchanged.
C14_AbsentRejectedValidEntropy ==
    (qcall.name \in {"update_entropy", "remove"}
       /\ ~Stored(qcall.before, qcall.coord))
        => /\ queue = qcall.before
           /\ qcall.err # "Ok"
           /\ (qcall.name = "remove" \/ qcall.entropy \in 1..Len(qcall.before))
                 => qcall.err = "EntryNotFound"

\* witness of C14: update_entropy with a valid entropy of a coord that is
\* not stored, on a queue that stores another coord
C14_Witness ==
    /\ qcall.name = "update_entropy"
    /\ qcall.entropy \in 1..Len(qcall.before)
    /\ ~Stored(qcall.before, qcall.coord)
    /\ qcall.err = "EntryNotFound"
    /\ \E other \in QCoords : Stored(queue, other)

(* C15 *)

\* the coords stored in queue b
StoredCoords(b) == UNION { b[i] : i \in 1..Len(b) }

\* C15: extract_min returns None iff no coord is stored; otherwise it returns
\* (coord, e) where coord was stored, e is the entropy of its latest
\* successful insert or update_entropy, e is <= the entropy every other
\* stored coord was last inserted or updated with, and afterwards coord is
\* no longer stored.
C15_ExtractMinCorrect ==
    qcall.name = "extract_min" =>
        /\ ~is_some(qcall.result) <=> StoredCoords(qcall.before) = {}
        /\ is_some(qcall.result) =>
              LET coord == qcall.result[1][1]
                  e == qcall.result[1][2]
              IN  /\ Stored(qcall.before, coord)
                  /\ qcall.stored[coord] = Some(e)
                  /\ \A other \in StoredCoords(qcall.before) \ {coord} :
                        /\ is_some(qcall.stored[other])
                        /\ e <= qcall.stored[other][1]
                  /\ ~Stored(queue, coord)

(* C16 *)

\* C16: peek_min returns a coord of the lowest non-empty bucket, None iff
\* the queue is empty, and leaves the queue as it was, so that a following
\* extract_min can return the same coord.
C16_PeekMinIsMinAndPure ==
    qcall.name = "peek_min" =>
        /\ queue = qcall.before
        /\ ~is_some(qcall.result) <=> StoredCoords(queue) = {}
        /\ is_some(qcall.result) =>
              /\ Stored(queue, qcall.result[1])
              /\ \A i \in NonEmpty(queue) :
                    \E k \in BucketsOf(queue, qcall.result[1]) : k <= i
              /\ qcall.result[1] \in queue[MinBucket(queue)]

\* witness of C16: peek_min has returned a coord while another coord is
\* stored at a higher entropy
C16_Witness ==
    /\ qcall.name = "peek_min"
    /\ is_some(qcall.result)
    /\ \E other \in QCoords \ {qcall.result[1]} :
          \E i \in BucketsOf(queue, other) :
              \A k \in BucketsOf(queue, qcall.result[1]) : k < i

(* C17 *)

\* C17: every call of backtrack, the re-targeted ones included, has the
\* target length (index of the last Collapse{Explicit}) + 1, and the
\* boundary entry it pops is a Collapse{Explicit}: no call finds no boundary
\* entry, forbids the tile of a Collapse{Implicit} or pops a DomainReduction
\* without undoing it.
C17_ForbidOnlyExplicit ==
    seen \cap {"TargetNotAfterExplicit", "NoBoundary", "ForbidImplicit",
               "DroppedReduction"} = {}

(* C18 *)

\* C18: whenever backtrack undoes a DomainReduction entry, its coord is in
\* the entropy queue: the update_entropy call of undo_domain_reduction never
\* fails.
C18_UndoReductionFindsCoord == "UndoReductionFailed" \notin seen

(* C19 *)

\* the latest iteration of collapse() failed in propagate and the backtrack
\* call that followed returned Ok
BacktrackedOk(step) ==
    step.res = "Continue" /\ step.notes = {"Backtrack", "ForbidExplicit"}

\* C19: an iteration of collapse() that collapses cell c to tile t, fails in
\* propagate and whose following backtrack call returns Ok leaves every cell
\* other than c with the domain, collapsed state and queue entropy it had
\* before the iteration; c is uncollapsed with its former domain minus {t}
\* and is in the queue at that domain's size; the history is as long as it
\* was.
C19_BacktrackRoundTrip ==
    [][ (pc = "collapse" /\ BacktrackedOk(lastStep'))
          => LET c == lastStep'.chosen_cell
                 t == lastStep'.chosen_tile_type
             IN  /\ \A x \in Coords \ {c} :
                       /\ tiles'[x] = tiles[x]
                       /\ BucketsOf(buckets', x) = BucketsOf(buckets, x)
                 /\ tiles'[c] = Tile(None, tiles[c].current_domain \ {t})
                 /\ BucketsOf(buckets', c) = {get_current_domain_size(tiles'[c])}
                 /\ Len(history') = Len(history) ]_vars

\* witness of C19: such a backtrack has just happened after a propagation
\* that collapsed another cell implicitly before it failed
C19_Witness ==
    /\ pc = "collapse"
    /\ BacktrackedOk(lastStep)
    /\ \E i \in 1..Len(appended) :
          /\ appended[i].event = "UndoTile"
          /\ appended[i].coord # lastStep.chosen_cell
          /\ \A k \in (i + 1)..Len(appended) :
                appended[k] = UndoTile(lastStep.chosen_cell)
          /\ i < Len(appended)

(* C20 *)

\* C20: between next() calls each coord is in at most one bucket, and a
\* coord in the queue has an uncollapsed cell with a non-empty domain whose
\* size is the entropy of its bucket.
C20_QueueGridConsistent ==
    pc = "idle" =>
        \A c \in Coords :
            /\ Cardinality(BucketsOf(buckets, c)) <= 1
            /\ Stored(buckets, c) =>
                  /\ ~Collapsed(c)
                  /\ tiles[c].current_domain # {}
                  /\ BucketsOf(buckets, c) = {get_current_domain_size(tiles[c])}

\* witness of C20: between next() calls, after a re-targeted backtrack, the
\* queue holds cells at two different entropies
C20_Witness ==
    /\ pc = "idle"
    /\ "Retarget" \in seen
    /\ \E c, d \in Coords :
          /\ Stored(buckets, c) /\ Stored(buckets, d)
          /\ BucketsOf(buckets, c) # BucketsOf(buckets, d)

(* C21 *)

\* C21: between next() calls a cell whose tile_type is Some(t) has the
\* current_domain {t}.
C21_CollapsedDomainIsSingleton ==
    pc = "idle" =>
        \A c \in Coords :
            Collapsed(c) => tiles[c].current_domain = {tiles[c].tile_type[1]}

\* witness of C21: between next() calls, after a re-targeted backtrack, the
\* grid holds a cell collapsed by propagation beside an uncollapsed one
C21_Witness ==
    /\ pc = "idle"
    /\ "Retarget" \in seen
    /\ \E i \in 1..Len(history) :
          /\ history[i].action = "Collapse" /\ history[i].kind = "Implicit"
          /\ Collapsed(history[i].coord)
    /\ \E c \in Coords : ~Collapsed(c)

(* C22 *)

\* an iteration of collapse() in which collapse_self was applied to a cell
ExplicitCollapse(step) ==
    "NoCells" \notin step.notes /\ "EmptyCollapse" \notin step.notes

Count(q, x) == Cardinality({ i \in 1..Len(q) : q[i] = x })

\* the positions of the DomainReduction entries of cell n in the history h
Reductions(h, n) ==
    { i \in 1..Len(h) : h[i].action = "DomainReduction" /\ h[i].coord = n }

\* the cells other than the chosen one whose domain the iteration from
\* `before` to `after` changed to a domain of size 1
ReducedToOne(before, after, chosen_cell) ==
    { n \in DOMAIN before \ {chosen_cell} :
        /\ ~is_some(before[n].tile_type)
        /\ before[n].current_domain # after[n].current_domain
        /\ get_current_domain_size(after[n]) = 1 }

\* C23: in an iteration of collapse() whose propagation returns Ok, every
\* uncollapsed neighbour n that propagation reduces to a domain {u} ends
\* with tile_type Some(u) and outside the queue; the timeline receives
\* SetTile{n, u} once; the history receives one
\* DomainReduction{n, removed, current_entropy: 1} and directly after it
\* Collapse{Implicit, n, u, removed}; n is popped from the propagation stack
\* once for each DomainReduction of n.
C23_ImplicitCollapseProtocol ==
    [][ (pc = "collapse" /\ lastStep'.res = "Ok")
          => \A n \in ReducedToOne(tiles, tiles', lastStep'.chosen_cell) :
               LET u == CHOOSE t \in tiles'[n].current_domain : TRUE
                   new_history == SubSeq(history', Len(history) + 1, Len(history'))
                   new_events == SubSeq(appended', Len(appended) + 1, Len(appended'))
                   last == { i \in Reductions(new_history, n) :
                               new_history[i].current_entropy = 1 }
               IN  /\ tiles'[n].tile_type = Some(u)
                   /\ ~Stored(buckets', n)
                   /\ Count(new_events, SetTile(u, n)) = 1
                   /\ new_events = SubSeq(timeline', Len(timeline) + 1, Len(timeline'))
                   /\ Cardinality(last) = 1
                   /\ \A i \in last :
                         /\ i < Len(new_history)
                         /\ new_history[i + 1] =
                              Collapse("Implicit", u, n, new_history[i].removed)
                         /\ new_history[i].removed \subseteq tiles[n].current_domain
                         /\ new_history[i].removed # {}
                   /\ Count(lastStep'.popped, n)
                        = Cardinality(Reductions(new_history, n)) ]_vars

\* witness of C23: an iteration of collapse() has just returned Ok after its
\* propagation collapsed a neighbour whose own propagation collapsed a
\* further cell
C23_Witness ==
    /\ pc = "idle" /\ lastStep.res = "Ok"
    /\ Len(lastStep.popped) >= 3
    /\ \E i \in 2..Len(history) :
          /\ history[i].action = "Collapse" /\ history[i].kind = "Implicit"
          /\ history[i - 1] = DomainReduction(history[i].coord, history[i].removed, 1)
          /\ history[i].coord \in { lastStep.popped[k] : k \in 2..Len(lastStep.popped) }
          /\ ~Stored(buckets, history[i].coord)

(* C24 *)

\* C24: propagate calls update_constraints on no neighbour whose tile_type
\* is Some; and an iteration of collapse() whose propagation returns Ok
\* leaves every cell that was collapsed before it with its tile_type and
\* current_domain, outside the queue, and appends no history entry and no
\* timeline event for it.
C24_PropagateSkipsCollapsed ==
    [][ pc = "collapse"
          => /\ \A r \in lastStep'.updated : ~is_some(r.tile.tile_type)
             /\ lastStep'.res = "Ok" =>
                  \A c \in Coords :
                      Collapsed(c) =>
                          /\ tiles'[c] = tiles[c]
                          /\ BucketsOf(buckets', c) = BucketsOf(buckets, c)
                          /\ \A i \in (Len(history) + 1)..Len(history') :
                                 history'[i].coord # c
                          /\ \A i \in (Len(appended) + 1)..Len(appended') :
                                 appended'[i].coord # c ]_vars

\* witness of C24: an iteration of collapse() has just returned Ok; its
\* propagation visited a neighbour that was collapsed by an earlier
\* iteration and reduced the domain of another neighbour
C24_Witness ==
    /\ pc = "idle" /\ lastStep.res = "Ok"
    /\ lastStep.updated # {}
    /\ \E v \in lastStep.visited :
          /\ v.to \in Coords /\ Collapsed(v.to)
          /\ v.to # lastStep.chosen_cell
          /\ \E i \in 1..Len(history) :
                /\ history[i].action = "Collapse" /\ history[i].coord = v.to
                /\ \E k \in (i + 1)..Len(history) :
                      history[k] = Collapse("Explicit", lastStep.chosen_tile_type,
                                            lastStep.chosen_cell, history[k].removed)
    /\ \E k \in 1..Len(history) :
          /\ history[k].action = "DomainReduction"
          /\ \E j \in 1..(k - 1) :
                /\ history[j].action = "Collapse" /\ history[j].kind = "Explicit"
                /\ history[j].coord = lastStep.chosen_cell

(* C25 *)

\* C25: collapse_self on a tile with the non-empty domain D returns
\* Ok((t, removed)) with t in D and removed = D minus {t}, and leaves the
\* tile with tile_type Some(t) and current_domain {t}; on a tile with the
\* empty domain it returns an error and leaves tile_type and current_domain
\* as they were.
C25_CollapseSelf ==
    tcall.name = "collapse_self" =>
        LET D == tcall.before.current_domain IN
        IF D # {}
          THEN /\ tcall.err = "Ok"
               /\ is_some(tcall.result)
               /\ LET t == tcall.result[1][1]
                      removed == tcall.result[1][2]
                  IN  /\ t \in D
                      /\ removed = D \ {t}
                      /\ ttile.tile_type = Some(t)
                      /\ ttile.current_domain = {t}
          ELSE /\ tcall.err # "Ok"
               /\ ttile = tcall.before

\* witness of C25: collapse_self has just returned Ok on a tile that had
\* three candidates and a tile_type other than the one picked
C25_Witness ==
    /\ tcall.name = "collapse_self" /\ tcall.err = "Ok"
    /\ Cardinality(tcall.before.current_domain) >= 3
    /\ is_some(tcall.before.tile_type)
    /\ tcall.before.tile_type # ttile.tile_type

\* collapse_self has just returned the error on a tile with the empty
\* domain and a tile_type that is Some
C25_WitnessEmpty ==
    /\ tcall.name = "collapse_self" /\ tcall.err # "Ok"
    /\ is_some(tcall.before.tile_type)

(* C26 *)

\* the sum over the cells cs of map of the current domain sizes
RECURSIVE DomainSizes(_, _)
DomainSizes(map, cs) ==
    IF cs = {} THEN 0
    ELSE LET c == CHOOSE x \in cs : TRUE
         IN  get_current_domain_size(map[c]) + DomainSizes(map, cs \ {c})

DomainSum(map) == DomainSizes(map, DOMAIN map)

\* C26 (as claimed): an iteration of collapse() that collapses a cell and
\* returns Ok leaves the sum of the domain sizes strictly smaller than it
\* was before the iteration.
C26_CollapseReducesSum ==
    [][ (pc = "collapse" /\ lastStep'.res = "Ok")
          => DomainSum(tiles') < DomainSum(tiles) ]_vars

\* C26 (amended): such an iteration never increases the sum of the domain
\* sizes and reduces it by at least |D| - 1, where D is the domain of the
\* collapsed cell before the iteration; the sum is strictly smaller when D
\* has more than one member.
C26_CollapseReducesSumByRemoved ==
    [][ (pc = "collapse" /\ lastStep'.res = "Ok")
          => DomainSum(tiles') + get_current_domain_size(tiles[lastStep'.chosen_cell])
                 <= DomainSum(tiles) + 1 ]_vars

\* witness of C26: an iteration of collapse() has just returned Ok for a
\* cell that an earlier backtrack re-inserted with a single candidate left
C26_Witness ==
    /\ pc = "idle" /\ lastStep.res = "Ok"
    /\ "ForbidExplicit" \in seen
    /\ Cardinality(tile_data.tiles) >= 2
    /\ is_some(find_last_collapse(history))
    /\ LET a == history[find_last_collapse(history)[1] + 1]
       IN  /\ a.coord = lastStep.chosen_cell
           /\ a.removed = {}
           /\ tiles[a.coord] = Tile(Some(a.tile_type), {a.tile_type})

(* C27 *)

\* C27: the history never holds more than width * height * N entries, N
\* the number of tile types of the full domain: neither between the
\* iterations of collapse() nor at its longest within an iteration.
C27_HistoryBounded ==
    LET limit == width * height * Cardinality(tile_data.tiles)
    IN  Len(history) <= limit /\ lastStep.peak <= limit

\* witness of C27: with two or more tile types and three or more cells the
\* grid is solved by one explicit collapse and the implicit collapse of
\* every other cell, each with its DomainReduction entries
C27_Witness ==
    /\ pc = "idle"
    /\ Cardinality(tile_data.tiles) >= 2
    /\ width * height >= 3
    /\ \A c \in Coords : Collapsed(c)
    /\ Len(history) = 1 + (width * height - 1) * Cardinality(tile_data.tiles)

=============================================================================
